---- MODULE Spec2Model ----
(***************************************************************************)
(* State-machine model of the STOMP frame codec of senojj/rustomp          *)
(* (src/src/frame/mod.rs, io.rs, string.rs).                               *)
(*                                                                         *)
(* Bytes are modelled as one-character strings; the control bytes have     *)
(* names (LF, CR, NUL, SP).  A byte string is a sequence of such bytes.    *)
(***************************************************************************)
EXTENDS Integers, Sequences, FiniteSets, TLC

\* ------------------------------------------------------------------ bytes

NULL == "NUL"
EOL == "LF"
BACKSLASH == "\\"
NEWLINE == "LF"
CARRIAGE_RETURN == "CR"
COLON == ":"
SP == " "
\* a byte that belongs to no UTF-8 text (0xFF)
BAD == "BAD"

Upper == << "A","B","C","D","E","F","G","H","I","J","K","L","M",
            "N","O","P","Q","R","S","T","U","V","W","X","Y","Z" >>
Lower == << "a","b","c","d","e","f","g","h","i","j","k","l","m",
            "n","o","p","q","r","s","t","u","v","w","x","y","z" >>
Digits == << "0","1","2","3","4","5","6","7","8","9" >>

Range(s) == { s[i] : i \in DOMAIN s }
IndexIn(s, c) == CHOOSE i \in DOMAIN s : s[i] = c
Min(a, b) == IF a <= b THEN a ELSE b

\* char::is_whitespace, on the bytes of the model
IsWhitespace(c) == c \in {SP, EOL, CARRIAGE_RETURN}

\* the byte value, for the ordering of String keys in the BTreeMap
CharCode(c) ==
    CASE c = NULL -> 0
      [] c = EOL -> 10
      [] c = CARRIAGE_RETURN -> 13
      [] c = SP -> 32
      [] c = "+" -> 43
      [] c = "," -> 44
      [] c = "-" -> 45
      [] c \in Range(Digits) -> 47 + IndexIn(Digits, c)
      [] c = COLON -> 58
      [] c \in Range(Upper) -> 64 + IndexIn(Upper, c)
      [] c = BACKSLASH -> 92
      [] c \in Range(Lower) -> 96 + IndexIn(Lower, c)
      [] OTHER -> 127

\* str::to_lowercase on one byte
\* a lower-casing that leaves every letter as it is
to_lowercase_keep(s) == s

LowerChar(c) == IF c \in Range(Upper) THEN Lower[IndexIn(Upper, c)] ELSE c
to_lowercase(s) == [i \in DOMAIN s |-> LowerChar(s[i])]

\* str::trim_start, str::trim_end_matches(c), str::trim
RECURSIVE trim_start(_)
trim_start(s) ==
    IF s # <<>> /\ IsWhitespace(Head(s)) THEN trim_start(Tail(s)) ELSE s

RECURSIVE trim_end_matches(_, _)
trim_end_matches(s, c) ==
    IF s # <<>> /\ s[Len(s)] = c
    THEN trim_end_matches(SubSeq(s, 1, Len(s) - 1), c)
    ELSE s

RECURSIVE trim_end(_)
trim_end(s) ==
    IF s # <<>> /\ IsWhitespace(s[Len(s)])
    THEN trim_end(SubSeq(s, 1, Len(s) - 1))
    ELSE s

trim(s) == trim_end(trim_start(s))

\* ------------------------------------------------------- escape codec

\* string.rs encode: the match arm of one char
EncodeCharNoColon(c) ==
    CASE c = BACKSLASH -> <<BACKSLASH, BACKSLASH>>
      [] c = CARRIAGE_RETURN -> <<BACKSLASH, "r">>
      [] c = NEWLINE -> <<BACKSLASH, "n">>
      [] OTHER -> <<c>>

EncodeChar(c) ==
    CASE c = BACKSLASH -> <<BACKSLASH, BACKSLASH>>
      [] c = CARRIAGE_RETURN -> <<BACKSLASH, "r">>
      [] c = NEWLINE -> <<BACKSLASH, "n">>
      [] c = COLON -> <<BACKSLASH, "c">>
      [] OTHER -> <<c>>

\* an encoding that escapes the first character only
encode_first(input) ==
    IF input = <<>> THEN <<>> ELSE EncodeChar(Head(input)) \o Tail(input)

RECURSIVE encode(_)
encode(input) ==
    IF input = <<>> THEN <<>>
    ELSE EncodeChar(Head(input)) \o encode(Tail(input))

\* a decoding step that keeps a backslash where it stands
DecodePushKeep(c, last_char) ==
    CASE c = "c" /\ last_char = BACKSLASH -> <<COLON>>
      [] c = "n" /\ last_char = BACKSLASH -> <<NEWLINE>>
      [] c = "r" /\ last_char = BACKSLASH -> <<CARRIAGE_RETURN>>
      [] c = BACKSLASH /\ last_char = BACKSLASH -> <<>>
      [] OTHER -> <<c>>

\* string.rs decode: what one char pushes, given last_char
DecodePush(c, last_char) ==
    CASE c = "c" /\ last_char = BACKSLASH -> <<COLON>>
      [] c = "n" /\ last_char = BACKSLASH -> <<NEWLINE>>
      [] c = "r" /\ last_char = BACKSLASH -> <<CARRIAGE_RETURN>>
      [] c = BACKSLASH /\ last_char = BACKSLASH -> <<BACKSLASH>>
      [] c = BACKSLASH -> <<>>
      [] OTHER -> <<c>>

\* string.rs decode: the new last_char
DecodeLastNoReset(c, last_char) == c

DecodeLast(c, last_char) ==
    IF last_char = BACKSLASH /\ c = BACKSLASH THEN NULL ELSE c

RECURSIVE DecodeLoop(_, _)
DecodeLoop(input, last_char) ==
    IF input = <<>> THEN <<>>
    ELSE DecodePush(Head(input), last_char)
           \o DecodeLoop(Tail(input), DecodeLast(Head(input), last_char))

decode(input) == DecodeLoop(input, NULL)

\* ------------------------------------------------------------ commands

\* mod.rs Command Display: the canonical spelling of each command
CommandText ==
    [ Connect     |-> <<"C","O","N","N","E","C","T">>,
      Stomp       |-> <<"S","T","O","M","P">>,
      Connected   |-> <<"C","O","N","N","E","C","T","E","D">>,
      Send        |-> <<"S","E","N","D">>,
      Subscribe   |-> <<"S","U","B","S","C","R","I","B","E">>,
      Unsubscribe |-> <<"U","N","S","U","B","S","C","R","I","B","E">>,
      Ack         |-> <<"A","C","K">>,
      Nack        |-> <<"N","A","C","K">>,
      Begin       |-> <<"B","E","G","I","N">>,
      Commit      |-> <<"C","O","M","M","I","T">>,
      Abort       |-> <<"A","B","O","R","T">>,
      Disconnect  |-> <<"D","I","S","C","O","N","N","E","C","T">>,
      Message     |-> <<"M","E","S","S","A","G","E">>,
      Receipt     |-> <<"R","E","C","E","I","P","T">>,
      Error       |-> <<"E","R","R","O","R">> ]

Commands == DOMAIN CommandText

\* mod.rs Command::from_str: exact match, or Err("invalid command")
Command_from_str(s) ==
    IF \E c \in Commands : CommandText[c] = s
    THEN [ok |-> TRUE, command |-> CHOOSE c \in Commands : CommandText[c] = s]
    ELSE [ok |-> FALSE, command |-> "invalid command"]

\* ------------------------------------------------------ buffered reading

\* The budgets of mod.rs (MAX_COMMAND_SIZE = 1024, MAX_HEADER_SIZE = 1024 * 1000)
\* and the capacity of std's BufReader and of io::copy's buffer (8192), scaled
\* down so that the budget and the refill cases happen on short inputs.
MAX_COMMAND_SIZE == 12
MAX_HEADER_SIZE == 17
BufCap == 4

\* BufRead::read_until(EOL) on Take(limit) over the stream at position p: the
\* number of bytes consumed: through the first EOL, or the limit, or to EOF.
ReadUntilLen(stream, p, limit) ==
    LET avail == Min(limit, Len(stream) - p)
        hits == { i \in 1..avail : stream[p + i] = EOL }
    IN IF hits = {} THEN avail
       ELSE CHOOSE i \in hits : \A j \in hits : i <= j

\* BufReader::fill_buf: the bytes taken from the underlying source once the
\* consumer has advanced to logical position target: a refill of BufCap bytes
\* each time the buffer is exhausted.
RECURSIVE FillTo(_, _, _)
FillTo(stream, sp, target) ==
    IF target <= sp THEN sp
    ELSE FillTo(stream, Min(sp + BufCap, Len(stream)), target)

\* BufReader::read(buf[..max]) at logical position p with sp bytes taken from
\* the source: a read at least as large as the capacity on an empty buffer
\* bypasses the buffer, any other read refills the empty buffer and copies
\* from it.
BufReaderRead(stream, p, sp, max) ==
    IF p = sp /\ max >= BufCap
    THEN LET n == Min(max, Len(stream) - sp)
         IN [n |-> n, pos |-> p + n, srcPos |-> sp + n]
    ELSE LET sp1 == IF p = sp THEN Min(sp + BufCap, Len(stream)) ELSE sp
             n == Min(max, sp1 - p)
         IN [n |-> n, pos |-> p + n, srcPos |-> sp1]

\* ------------------------------------------------------------ header table

\* A Header is a function from field names to non-empty value lists
\* (BTreeMap<String, Vec<String>>).
Header_new == [k \in {} |-> <<>>]

\* a push that puts the value in the place of the name's list
Header_push_replace(h, key, value) ==
    [k \in DOMAIN h \cup {key} |-> IF k = key THEN <<value>> ELSE h[k]]

\* mod.rs Header::push
Header_push(h, key, value) ==
    IF key \in DOMAIN h
    THEN [h EXCEPT ![key] = Append(@, value)]
    ELSE [k \in DOMAIN h \cup {key} |-> IF k = key THEN <<value>> ELSE h[k]]

\* Ord for String: byte-wise lexicographic
RECURSIVE StrLess(_, _)
StrLess(a, b) ==
    IF b = <<>> THEN FALSE
    ELSE IF a = <<>> THEN TRUE
    ELSE IF Head(a) = Head(b) THEN StrLess(Tail(a), Tail(b))
    ELSE CharCode(Head(a)) < CharCode(Head(b))

\* the keys in descending order
RECURSIVE SortedKeysDesc(_)
SortedKeysDesc(ks) ==
    IF ks = {} THEN <<>>
    ELSE LET m == CHOOSE k \in ks : \A o \in ks \ {k} : StrLess(o, k)
         IN <<m>> \o SortedKeysDesc(ks \ {m})

\* BTreeMap::iter: the keys in ascending order
RECURSIVE SortedKeys(_)
SortedKeys(ks) ==
    IF ks = {} THEN <<>>
    ELSE LET m == CHOOSE k \in ks : \A o \in ks \ {k} : StrLess(k, o)
         IN <<m>> \o SortedKeys(ks \ {m})

\* [String]::join(",")
RECURSIVE Join(_)
Join(vs) ==
    IF vs = <<>> THEN <<>>
    ELSE IF Len(vs) = 1 THEN vs[1]
    ELSE vs[1] \o <<",">> \o Join(Tail(vs))

\* a line formatted from the name and the values as they are
FieldLineRaw(k, v) == k \o <<COLON, SP>> \o Join(v) \o <<EOL>>

\* mod.rs Header::write_to: one formatted line of a field
FieldLine(k, v) == encode(k) \o <<COLON, SP>> \o encode(Join(v)) \o <<EOL>>

RECURSIVE WriteFields(_, _)
WriteFields(h, keys) ==
    IF keys = <<>> THEN <<>>
    ELSE FieldLine(Head(keys), h[Head(keys)]) \o WriteFields(h, Tail(keys))

\* mod.rs Header::write_to: the bytes written (bytes_written is their number)
Header_write_to(h) == WriteFields(h, SortedKeys(DOMAIN h))

\* str::split(c): the parts between the occurrences of c
RECURSIVE Split(_, _)
Split(s, c) ==
    IF \A i \in DOMAIN s : s[i] # c THEN <<s>>
    ELSE LET i == CHOOSE j \in DOMAIN s :
                     s[j] = c /\ \A k \in 1..(j - 1) : s[k] # c
         IN <<SubSeq(s, 1, i - 1)>> \o Split(SubSeq(s, i + 1, Len(s)), c)

\* mod.rs Header::read_from: the loop, with the bytes of the budget left
RECURSIVE ReadFromLoop(_, _, _, _)
ReadFromLoop(stream, p, limit, header) ==
    LET bytes_read == ReadUntilLen(stream, p, limit)
        line == SubSeq(stream, p + 1, p + bytes_read)
        clean_line == trim_end_matches(trim_end_matches(line, CARRIAGE_RETURN), NEWLINE)
        parts == Split(clean_line, COLON)
        field_name == decode(parts[1])
        field_value == decode(parts[2])
        clean_field_name == to_lowercase(trim(field_name))
        clean_field_value ==
            trim_end_matches(trim_end_matches(trim_start(field_value), NEWLINE),
                             CARRIAGE_RETURN)
    IN IF bytes_read < 1
       THEN [status |-> "Ok", header |-> header, pos |-> p]
       ELSE IF BAD \in Range(line)
       THEN [status |-> "Encoding", header |-> header, pos |-> p + bytes_read]
       ELSE IF Len(parts) < 2
       THEN [status |-> "Format", header |-> header, pos |-> p + bytes_read]
       ELSE IF clean_field_name = <<>>
       THEN [status |-> "Format", header |-> header, pos |-> p + bytes_read]
       ELSE ReadFromLoop(stream, p + bytes_read, limit - bytes_read,
                         Header_push(header, clean_field_name, clean_field_value))

\* mod.rs Header::read_from on the reader at position p
Header_read_from(stream, p) == ReadFromLoop(stream, p, MAX_HEADER_SIZE, Header_new)

\* ------------------------------------------------------------ body readers

\* A reader state st is [pos, srcPos, kind, limit, first_done, done]: the
\* position of the shared BufReader (pos consumed by its users, srcPos taken
\* from the underlying source) and the fields of the body's adapters.  A read
\* returns [n, buf, st]: the count reported, the caller's buffer and the new
\* state.

Stale == "?"
FreshBuf(len) == [i \in 1..len |-> Stale]

\* io.rs DelimitedReadFrom::read_from: the while loop, from counter ctr
RECURSIVE DelimitedLoop(_, _, _, _, _)
DelimitedLoop(stream, st, buffer, ctr, total_read) ==
    IF ctr >= Len(buffer) THEN [n |-> total_read, buf |-> buffer, st |-> st]
    ELSE LET r == BufReaderRead(stream, st.pos, st.srcPos, 1)
             st1 == [st EXCEPT !.pos = r.pos, !.srcPos = r.srcPos]
         IN IF r.n > 0
            THEN IF stream[st.pos + 1] = NULL
                 THEN [n |-> total_read, buf |-> buffer,
                       st |-> [st1 EXCEPT !.done = TRUE]]
                 ELSE DelimitedLoop(stream, st1,
                                    [buffer EXCEPT ![ctr + 1] = stream[st.pos + 1]],
                                    ctr + 1, total_read + r.n)
            ELSE DelimitedLoop(stream, st1, buffer, ctr + 1, total_read)

\* a delimited reader that does not stop at the delimiter
DelimitedReadThrough(stream, st, buffer) ==
    LET r == BufReaderRead(stream, st.pos, st.srcPos, Len(buffer))
    IN [n |-> r.n,
        buf |-> [i \in 1..Len(buffer) |->
                    IF i <= r.n THEN stream[st.pos + i] ELSE buffer[i]],
        st |-> [st EXCEPT !.pos = r.pos, !.srcPos = r.srcPos]]

\* io.rs DelimitedReadFrom::read_from
DelimitedRead(stream, st, buffer) ==
    IF st.done THEN [n |-> 0, buf |-> buffer, st |-> st]
    ELSE DelimitedLoop(stream, st, buffer, 0, 0)

\* io.rs TakeReadFrom::read_from
LimitedRead(stream, st, buffer) ==
    IF st.limit = 0 THEN [n |-> 0, buf |-> buffer, st |-> st]
    ELSE LET max == Min(Len(buffer), st.limit)
             r == BufReaderRead(stream, st.pos, st.srcPos, max)
         IN [n |-> r.n,
             buf |-> [i \in 1..Len(buffer) |->
                         IF i <= r.n THEN stream[st.pos + i] ELSE buffer[i]],
             st |-> [st EXCEPT !.pos = r.pos, !.srcPos = r.srcPos,
                               !.limit = st.limit - r.n]]

\* BiReader::read (its source is not in the repository's files; the callers
\* build it from the limited reader and the delimited reader of one source):
\* the first reader until it reports 0, then the second.
BiRead(stream, st, buffer) ==
    IF st.first_done THEN DelimitedRead(stream, st, buffer)
    ELSE LET r1 == LimitedRead(stream, st, buffer)
         IN IF r1.n > 0 THEN r1
            ELSE DelimitedRead(stream, [r1.st EXCEPT !.first_done = TRUE], buffer)

\* mod.rs Body::read: the reader BodyBuilder::build boxed
Body_read(stream, st, buffer) ==
    IF st.kind = "bi" THEN BiRead(stream, st, buffer)
    ELSE DelimitedRead(stream, st, buffer)

\* mod.rs BodyBuilder::build: the adapters' initial fields
BodyBuilder_build(p, sp, content_length) ==
    [pos |-> p, srcPos |-> sp,
     kind |-> IF content_length >= 0 THEN "bi" ELSE "delimited",
     limit |-> IF content_length >= 0 THEN content_length ELSE 0,
     first_done |-> FALSE, done |-> FALSE]

\* io::copy(reader, writer): reads into a buffer of BufCap bytes until a read
\* reports 0; [out, st]: the bytes copied and the reader's final state
RECURSIVE Copy(_, _, _)
Copy(stream, st, out) ==
    LET r == Body_read(stream, st, FreshBuf(BufCap))
    IN IF r.n = 0 THEN [out |-> out, st |-> r.st]
       ELSE Copy(stream, r.st, out \o SubSeq(r.buf, 1, r.n))

\* a close that leaves the body where it is
Body_close_nothing(stream, st) == st

\* mod.rs Body::close: copy to io::sink()
Body_close(stream, st) == Copy(stream, st, <<>>).st

\* ------------------------------------------------------------ frame reader

\* str::parse::<u64>: an optional "+" and at least one digit; -1 for an Err
RECURSIVE DigitsValue(_, _)
DigitsValue(s, acc) ==
    IF s = <<>> THEN acc
    ELSE DigitsValue(Tail(s), 10 * acc + (IndexIn(Digits, Head(s)) - 1))

ParseU64(s) ==
    LET d == IF s # <<>> /\ Head(s) = "+" THEN Tail(s) ELSE s
    IN IF d # <<>> /\ \A i \in DOMAIN d : d[i] \in Range(Digits)
       THEN DigitsValue(d, 0)
       ELSE -1

\* mod.rs Frame::read_command at position p: [ok, value, pos]
Frame_read_command(stream, p) ==
    LET cmd_bytes_read == ReadUntilLen(stream, p, MAX_COMMAND_SIZE)
        raw_string_command == SubSeq(stream, p + 1, p + cmd_bytes_read)
        clean_string_command == trim(raw_string_command)
        parsed == Command_from_str(clean_string_command)
    IN IF cmd_bytes_read < 1
       THEN [ok |-> FALSE, value |-> "empty command", pos |-> p]
       ELSE IF BAD \in Range(raw_string_command)
       THEN [ok |-> FALSE, value |-> "Encoding", pos |-> p + cmd_bytes_read]
       ELSE IF clean_string_command = <<>>
       THEN [ok |-> FALSE, value |-> "empty command", pos |-> p + cmd_bytes_read]
       ELSE [ok |-> parsed.ok, value |-> parsed.command, pos |-> p + cmd_bytes_read]

UNUSED == 0

\* a guard that is handed out whatever the latch holds
Guard_new_always(value) == [some |-> TRUE, value |-> UNUSED + 1]

\* a guard that is handed out whatever the latch holds, the latch counted up
Guard_new_count(value) == [some |-> TRUE, value |-> value + 1]

\* mod.rs Guard::new: [some, value]: whether a guard is returned, and the latch
Guard_new(value) ==
    IF value = UNUSED THEN [some |-> TRUE, value |-> UNUSED + 1]
    ELSE [some |-> FALSE, value |-> value]

\* a guard whose drop leaves the latch as it is
Guard_drop_keep(value) == value

\* mod.rs Drop for Guard: the latch afterwards
Guard_drop(value) == value - 1

CONTENT_LENGTH == <<"c","o","n","t","e","n","t","-","l","e","n","g","t","h">>

NoBody == BodyBuilder_build(0, 0, -1)
NoFrame ==
    [alive |-> FALSE, command |-> "none", header |-> Header_new,
     content_length |-> -1, bodyStart |-> 0, eof |-> FALSE, closed |-> FALSE]
NoHeader == [status |-> "none", header |-> Header_new, pos |-> 0]
NoCommand == [ok |-> FALSE, value |-> "none", pos |-> 0]
NoAdapter == [pos |-> 0, chunk |-> 1, limit |-> 0, done |-> FALSE]
NoRead == [n |-> 0, buf |-> <<>>, from |-> 0, before |-> NoAdapter]

VARIABLES
    src,        \* the bytes of the underlying source R, first to last
    srcPos,     \* how many of them the BufReader has taken from R
    pos,        \* how many the users of the BufReader have consumed
    latch,      \* Gate.latch
    frame,      \* the frame read_frame returned last, alive until dropped
    body,       \* the fields of that frame's body adapters
    delivered,  \* the body bytes the caller has received from that frame
    op,         \* the operation performed last
    result,     \* what the last read_frame returned
    callPos,    \* where the reader stood when read_frame was called last
    hdrStart,   \* where the last read_frame's Header::read_from started
    hdrRes,     \* what that Header::read_from returned
    wq,         \* the frames still to be written to the wire
    wdone,      \* the frames written, with the byte count write_to returned
    cs, cenc, cdec, craw,   \* a string, its encoding, and their decodings
    hTable, hWire, hParsed, \* a header table, its bytes, and their parse
    hOrder,     \* the order in which the table's names were added
    lBlock,     \* the lines of a header block, without their line endings
    lLF, lCRLF, \* Header::read_from on the block, each line ended LF / CR LF
    cmdLine, cmdRes,        \* a command line and Frame::read_command on it
    uUp,        \* what an upstream reader yields, read by read
    uKind,      \* the adapter reading it: "delimited" or "take"
    uN,         \* the limit the take adapter was created with
    uSt,        \* the adapter's fields and the upstream's position
    uOut,       \* the bytes the adapter's caller has received
    uLast,      \* the adapter's last read: its buffer, count and start
    gGuards,    \* the number of live guards of a Gate
    gLog        \* the outcomes of the operations made on the Gate

readerVars == <<src, srcPos, pos, latch, frame, body, delivered, op, result,
                callPos, hdrStart, hdrRes>>
writerVars == <<wq, wdone>>
codecVars == <<cs, cenc, cdec, craw>>
headerVars == <<hTable, hWire, hParsed, hOrder>>
lineVars == <<lBlock, lLF, lCRLF>>
commandVars == <<cmdLine, cmdRes>>
unitVars == <<uUp, uKind, uN, uSt, uOut, uLast>>
gateVars == <<gGuards, gLog>>
vars == <<readerVars, writerVars, codecVars, headerVars, lineVars, commandVars,
          unitVars, gateVars>>
notReader == <<writerVars, codecVars, headerVars, lineVars, commandVars,
               unitVars, gateVars>>

\* the body's adapters at the BufReader's present position, and back
St == [body EXCEPT !.pos = pos, !.srcPos = srcPos]
Fields(st) == [st EXCEPT !.pos = 0, !.srcPos = 0]

\* mod.rs FrameReader::read_frame
read_frame ==
    LET guard == Guard_new(latch)
        command == Frame_read_command(src, pos)
        header == Header_read_from(src, command.pos)
        clen == IF CONTENT_LENGTH \in DOMAIN header.header
                THEN ParseU64(header.header[CONTENT_LENGTH][1])
                ELSE -1
        failed(where, what) ==
            /\ result' = what
            /\ pos' = where
            /\ srcPos' = FillTo(src, srcPos, where)
            /\ latch' = Guard_drop(guard.value)
            /\ UNCHANGED <<frame, body, delivered>>
    IN /\ op' = "read_frame"
       /\ callPos' = pos
       /\ UNCHANGED <<src, notReader>>
       /\ \E io_error \in BOOLEAN :
          IF ~guard.some
          THEN /\ result' = "Busy"
               /\ UNCHANGED <<srcPos, pos, latch, frame, body, delivered,
                              hdrStart, hdrRes>>
          ELSE IF io_error
          THEN /\ failed(pos, "IO")
               /\ UNCHANGED <<hdrStart, hdrRes>>
          ELSE IF ~command.ok
          THEN /\ failed(command.pos, command.value)
               /\ UNCHANGED <<hdrStart, hdrRes>>
          ELSE /\ hdrStart' = command.pos
               /\ hdrRes' = header
               /\ IF header.status # "Ok"
                  THEN failed(header.pos, header.status)
                  ELSE IF CONTENT_LENGTH \in DOMAIN header.header /\ clen < 0
                  THEN failed(header.pos, "ParseInt")
                  ELSE /\ result' = "Ok"
                       /\ pos' = header.pos
                       /\ srcPos' = FillTo(src, srcPos, header.pos)
                       /\ latch' = guard.value
                       /\ frame' = [alive |-> TRUE, command |-> command.value,
                                    header |-> header.header,
                                    content_length |-> clen,
                                    bodyStart |-> header.pos, eof |-> FALSE,
                                    closed |-> FALSE]
                       /\ body' = Fields(BodyBuilder_build(header.pos, srcPos', clen))
                       /\ delivered' = <<>>

\* the caller reads the live frame's body into a buffer of len bytes
Body_read_call(len) ==
    LET r == Body_read(src, St, FreshBuf(len))
    IN /\ frame.alive
       /\ op' = "read"
       /\ pos' = r.st.pos
       /\ srcPos' = r.st.srcPos
       /\ body' = Fields(r.st)
       /\ delivered' = delivered \o SubSeq(r.buf, 1, r.n)
       /\ frame' = [frame EXCEPT !.eof = @ \/ r.n = 0]
       /\ UNCHANGED <<notReader, src, latch, result, callPos, hdrStart, hdrRes>>

\* mod.rs Drop for Frame: body.close(), then the fields are dropped, the
\* guard among them
Frame_drop ==
    LET st == Body_close(src, St)
    IN /\ frame.alive
       /\ op' = "drop"
       /\ pos' = st.pos
       /\ srcPos' = st.srcPos
       /\ body' = Fields(st)
       /\ latch' = Guard_drop(latch)
       /\ frame' = [frame EXCEPT !.alive = FALSE]
       /\ UNCHANGED <<notReader, src, delivered, result, callPos, hdrStart, hdrRes>>

\* the caller closes the live frame's body (mod.rs Body::close)
Body_close_call ==
    LET st == Body_close(src, St)
    IN /\ frame.alive
       /\ op' = "close"
       /\ pos' = st.pos
       /\ srcPos' = st.srcPos
       /\ body' = Fields(st)
       /\ frame' = [frame EXCEPT !.closed = TRUE]
       /\ UNCHANGED <<notReader, src, latch, delivered, result, callPos, hdrStart, hdrRes>>

\* ------------------------------------------------------------------ inputs

MaxTail == 3
MaxRead == 4

SeqsUpTo(S, n) == UNION { [1..k -> S] : k \in 0..n }

ACCEPT_VERSION == <<"a","c","c","e","p","t","-","v","e","r","s","i","o","n">>
LineAB == <<"a", COLON, "b", EOL>>
LineCL(d) == CONTENT_LENGTH \o <<COLON, d, EOL>>
LineCLsp(d) == CONTENT_LENGTH \o <<COLON, SP, d, EOL>>
LineAV == ACCEPT_VERSION \o <<COLON, "1", EOL>>
ContentLengthMixed == <<"C","o","n","t","e","n","t","-","L","e","n","g","t","h">>
ContentLengthUpper == <<"C","O","N","T","E","N","T","-","L","E","N","G","T","H">>
LineNamed(name, d) == name \o <<COLON, d, EOL>>

CmdLines ==
    { CommandText.Send \o <<EOL>>,
      CommandText.Ack \o <<CARRIAGE_RETURN, EOL>>,
      <<"s","e","n","d", EOL>>,
      <<BAD, EOL>>,
      <<EOL>> }

HeaderBlocks ==
    { <<>>, LineAB, LineCL("0"), LineCL("1"), LineCL("2"), LineCL("x"),
      LineCLsp("1"), LineAV, <<"a", EOL>>, <<"a", COLON, BAD, EOL>>,
      LineNamed(ContentLengthMixed, "1"), LineNamed(ContentLengthUpper, "2"),
      <<EOL>>, LineAB \o <<EOL>>, LineCLsp("1") \o <<EOL>> }

Tails ==
    { b \o n : b \in SeqsUpTo({"x", NULL}, MaxTail),
               n \in { <<>>, CommandText.Ack \o <<EOL>> } }

Inputs == { c \o h \o t : c \in CmdLines, h \in HeaderBlocks, t \in Tails }

ReaderInit ==
    /\ srcPos = 0
    /\ pos = 0
    /\ latch = UNUSED
    /\ frame = NoFrame
    /\ body = Fields(NoBody)
    /\ delivered = <<>>
    /\ op = "new"
    /\ result = "none"
    /\ callPos = 0
    /\ hdrStart = 0
    /\ hdrRes = NoHeader

WriterIdle == wq = <<>> /\ wdone = <<>>
CodecIdle == cs = <<>> /\ cenc = <<>> /\ cdec = <<>> /\ craw = <<>>
HeaderIdle ==
    hTable = Header_new /\ hWire = <<>> /\ hParsed = NoHeader /\ hOrder = <<>>
LineIdle == lBlock = <<>> /\ lLF = NoHeader /\ lCRLF = NoHeader
CommandIdle == cmdLine = <<>> /\ cmdRes = NoCommand
UnitIdle ==
    /\ uUp = <<>> /\ uKind = "none" /\ uN = 0 /\ uSt = NoAdapter
    /\ uOut = <<>> /\ uLast = NoRead
GateIdle == gGuards = 0 /\ gLog = <<>>

\* FrameReader::new over a source holding one of the inputs
Init ==
    /\ src \in Inputs
    /\ ReaderInit
    /\ WriterIdle /\ CodecIdle /\ HeaderIdle /\ LineIdle /\ CommandIdle /\ UnitIdle
    /\ GateIdle

Next ==
    \/ read_frame
    \/ \E len \in 1..MaxRead : Body_read_call(len)
    \/ Body_close_call
    \/ Frame_drop

Spec == Init /\ [][Next]_vars

\* ------------------------------------------------- frame reader properties

FirstOf(S) == CHOOSE i \in S : \A j \in S : i <= j

\* The position just past the terminating NUL of frame f: the first NUL at or
\* after the end of the declared body (of the body's start without a
\* content-length); the end of the source when there is none.
FrameEnd(f) ==
    LET from == f.bodyStart +
                (IF f.content_length >= 0 THEN f.content_length ELSE 0)
        nuls == { i \in (from + 1)..Len(src) : src[i] = NULL }
    IN IF nuls = {} THEN Len(src) ELSE FirstOf(nuls)

\* The bytes from the body's start up to the first NUL (to the end of the
\* source when there is none).
BeforeFirstNul(f) ==
    LET nuls == { i \in (f.bodyStart + 1)..Len(src) : src[i] = NULL }
        last == IF nuls = {} THEN Len(src) ELSE FirstOf(nuls) - 1
    IN SubSeq(src, f.bodyStart + 1, last)

\* C1: once the caller has read the body of a frame returned by read_frame to
\* EOF, the bytes delivered are exactly the content-length bytes that follow
\* the header block when the header has a content-length, and exactly the
\* bytes before the first NUL when it has none, whatever buffer sizes the
\* caller used.
C1_BodyExact ==
    frame.eof =>
        IF frame.content_length >= 0
        THEN /\ Len(delivered) = frame.content_length
             /\ frame.bodyStart + frame.content_length <= Len(src)
             /\ delivered = SubSeq(src, frame.bodyStart + 1,
                                   frame.bodyStart + frame.content_length)
        ELSE delivered = BeforeFirstNul(frame)

C3_BusyWhileAlive ==
    [][ (frame.alive /\ op' = "read_frame") =>
            /\ result' = "Busy"
            /\ pos' = pos /\ srcPos' = srcPos
            /\ latch = UNUSED + 1 /\ latch' = latch
            /\ frame' = frame /\ body' = body ]_vars

C3_Witness ==
    /\ op = "read_frame" /\ result = "Busy"
    /\ frame.alive /\ latch = UNUSED + 1
    /\ pos < Len(src)

RECURSIVE FirstBlank(_)
FirstBlank(p) ==
    LET n == ReadUntilLen(src, p, Len(src) - p)
        line == SubSeq(src, p + 1, p + n)
    IN IF n = 0 THEN -1
       ELSE IF \A i \in DOMAIN line : line[i] \in {CARRIAGE_RETURN, NEWLINE}
       THEN p
       ELSE FirstBlank(p + n)

BlankLen(p) == ReadUntilLen(src, p, Len(src) - p)

\* C7: when the header block read by read_frame has a blank line (within the
\* budget, after well-formed header lines), Header::read_from returns Ok with
\* the headers of the lines before it and leaves the reader just past the
\* blank line, at the first body byte.
C7_StopsAtBlankLine ==
    LET q == FirstBlank(hdrStart)
        before == Header_read_from(SubSeq(src, 1, q), hdrStart)
    IN ( /\ op = "read_frame"
         /\ result \notin {"Busy", "empty command", "invalid command"}
         /\ q >= 0
         /\ q + BlankLen(q) <= hdrStart + MAX_HEADER_SIZE
         /\ before.status = "Ok" /\ before.pos = q )
       => /\ hdrRes.status = "Ok"
          /\ hdrRes.header = before.header
          /\ hdrRes.pos = q + BlankLen(q)

\* ------------------------------------------------------------ frame writer

\* A frame to be written is [command, header, bodySrc, content_length]: its
\* body is the Body that BodyBuilder builds over a Cursor holding bodySrc,
\* with the given content_length (-1: none), as in test::write_frame_with_body.
BodyOf(f) == BodyBuilder_build(0, Len(f.bodySrc), f.content_length)

\* a write_to that cuts the body at the declared content-length
Frame_write_to_declared(f) ==
    LET cmd == CommandText[f.command]
        hdr == Header_write_to(f.header)
        all == Copy(f.bodySrc, BodyOf(f), <<>>).out
        n == IF CONTENT_LENGTH \in DOMAIN f.header
             THEN ParseU64(f.header[CONTENT_LENGTH][1]) ELSE -1
        copied == IF n >= 0 THEN SubSeq(all, 1, Min(n, Len(all))) ELSE all
    IN [bytes |-> cmd \o <<EOL>> \o hdr \o <<EOL>> \o copied \o <<NULL>>,
        bytes_written |-> Len(cmd) + 1 + Len(hdr) + 1 + Len(copied) + 1]

\* mod.rs Frame::write_to: [bytes, bytes_written]: what reaches the sink once
\* the BufWriter is flushed, and the count returned
Frame_write_to(f) ==
    LET cmd == CommandText[f.command]
        hdr == Header_write_to(f.header)
        copied == Copy(f.bodySrc, BodyOf(f), <<>>).out
    IN [bytes |-> cmd \o <<EOL>> \o hdr \o <<EOL>> \o copied \o <<NULL>>,
        bytes_written |-> Len(cmd) + 1 + Len(hdr) + 1 + Len(copied) + 1]

\* the next frame of wq is written to the wire
frame_write ==
    LET f == Head(wq)
        w == Frame_write_to(f)
    IN /\ wq # <<>>
       /\ op' = "write_to"
       /\ src' = src \o w.bytes
       /\ wq' = Tail(wq)
       /\ wdone' = Append(wdone, [frame |-> f, bytes |-> w.bytes,
                                  bytes_written |-> w.bytes_written])
       /\ UNCHANGED <<srcPos, pos, latch, frame, body, delivered, result,
                      callPos, hdrStart, hdrRes, codecVars, headerVars,
                      lineVars, commandVars, unitVars, gateVars>>

\* read_frame on a FrameReader over the wire, once every frame is written
wire_read_frame == wq = <<>> /\ wdone # <<>> /\ read_frame

MaxFrames == 2

CONTENT_TYPE == <<"c","o","n","t","e","n","t","-","t","y","p","e">>
OneHeader(k, v) == Header_push(Header_new, k, v)

WireBodies ==
    { [header |-> Header_new, bodySrc |-> <<>>, content_length |-> -1],
      [header |-> Header_new, bodySrc |-> <<"x">>, content_length |-> -1],
      [header |-> OneHeader(CONTENT_LENGTH, <<"3">>), bodySrc |-> <<"x">>,
       content_length |-> 3],
      [header |-> OneHeader(CONTENT_LENGTH, <<"1">>), bodySrc |-> <<"x", "x">>,
       content_length |-> 1],
      [header |-> OneHeader(CONTENT_LENGTH, <<"1">>), bodySrc |-> <<NULL>>,
       content_length |-> 1],
      [header |-> OneHeader(CONTENT_TYPE, <<"a", "b">>), bodySrc |-> <<"x">>,
       content_length |-> -1] }

WireFrames ==
    { [command |-> c, header |-> b.header, bodySrc |-> b.bodySrc,
       content_length |-> b.content_length] :
        c \in {"Connect", "Send"}, b \in WireBodies }

WireInit ==
    /\ wq \in UNION { [1..n -> WireFrames] : n \in 1..MaxFrames }
    /\ wdone = <<>>
    /\ src = <<>>
    /\ ReaderInit
    /\ CodecIdle /\ HeaderIdle /\ LineIdle /\ CommandIdle /\ UnitIdle
    /\ GateIdle

WireNext ==
    \/ frame_write
    \/ wire_read_frame
    \/ \E len \in 1..MaxRead : Body_read_call(len)
    \/ Frame_drop

SpecWire == WireInit /\ [][WireNext]_vars

\* what the Body of frame f yields when read to EOF: without a
\* content_length the source's bytes before its first NUL, with one the
\* first content_length bytes and then the bytes before the next NUL
UpToNul(b, from) ==
    LET nuls == { i \in (from + 1)..Len(b) : b[i] = NULL }
    IN SubSeq(b, from + 1, IF nuls = {} THEN Len(b) ELSE FirstOf(nuls) - 1)

BodyYield(f) ==
    IF f.content_length < 0 THEN UpToNul(f.bodySrc, 0)
    ELSE LET n == Min(f.content_length, Len(f.bodySrc))
         IN SubSeq(f.bodySrc, 1, n) \o UpToNul(f.bodySrc, n)

\* C10: what write_to emits for a frame is the command's spelling, one LF,
\* the header block, one LF, the bytes the body yields and one NUL, in this
\* order and nothing else; the count returned is the number of bytes emitted;
\* the header's content-length does not change the body bytes written (the
\* output is that of the frame without headers plus the header block).
C10_WriteLayout ==
    \A i \in DOMAIN wdone :
        LET w == wdone[i]
            f == w.frame
            bare == Frame_write_to([f EXCEPT !.header = Header_new])
        IN /\ w.bytes = CommandText[f.command] \o <<EOL>>
                         \o Header_write_to(f.header) \o <<EOL>>
                         \o BodyYield(f) \o <<NULL>>
           /\ w.bytes_written = Len(w.bytes)
           /\ Len(w.bytes) = Len(bare.bytes) + Len(Header_write_to(f.header))

\* a frame written whose header declares more bytes than its body yields,
\* and one whose header declares fewer
C10_Witness ==
    /\ Len(wdone) = 2
    /\ wdone[1].frame.header = OneHeader(CONTENT_LENGTH, <<"3">>)
    /\ Len(BodyYield(wdone[1].frame)) = 1
    /\ wdone[2].frame.header = OneHeader(CONTENT_LENGTH, <<"1">>)
    /\ Len(BodyYield(wdone[2].frame)) = 2
    /\ src = wdone[1].bytes \o wdone[2].bytes

\* where the k-th written frame starts on the wire
RECURSIVE Offset(_)
Offset(k) == IF k <= 1 THEN 0 ELSE Offset(k - 1) + Len(wdone[k - 1].bytes)

\* a header table with its names lower-cased
Folded(h) ==
    [k \in { to_lowercase(n) : n \in DOMAIN h } |->
        h[CHOOSE n \in DOMAIN h : to_lowercase(n) = k]]

\* C5: once N frames are written back to back, the read_frame called where
\* the k-th frame starts returns the k-th frame's command and headers, its
\* body read to EOF is the k-th body, and dropping it leaves the reader where
\* the next frame starts.
C5_RoundTrip ==
    \A k \in DOMAIN wdone :
        (wq = <<>> /\ callPos = Offset(k) /\ op # "write_to" /\ result # "Busy") =>
            /\ result = "Ok"
            /\ frame.command = wdone[k].frame.command
            /\ frame.header = Folded(wdone[k].frame.header)
            /\ frame.eof => delivered = BodyYield(wdone[k].frame)
            /\ op = "drop" => pos = Offset(k + 1)

\* ------------------------------------------------------------ escape codec

MaxStrLen == 4

CodecAlphabet == {BACKSLASH, CARRIAGE_RETURN, NEWLINE, COLON, "c", "n", "r", "a"}

CodecInit ==
    /\ cs \in SeqsUpTo(CodecAlphabet, MaxStrLen)
    /\ cenc = <<>> /\ cdec = <<>> /\ craw = <<>>
    /\ src = <<>>
    /\ ReaderInit
    /\ WriterIdle /\ HeaderIdle /\ LineIdle /\ CommandIdle /\ UnitIdle
    /\ GateIdle

notCodec == <<src, srcPos, pos, latch, frame, body, delivered, result,
              callPos, hdrStart, hdrRes, writerVars, headerVars, lineVars,
              commandVars, unitVars, gateVars>>

\* string.rs encode applied to the string
encode_call ==
    /\ op = "new"
    /\ op' = "encode"
    /\ cenc' = encode(cs)
    /\ UNCHANGED <<cs, cdec, craw, notCodec>>

\* string.rs decode applied to the encoded string
decode_call ==
    /\ op = "encode"
    /\ op' = "decode"
    /\ cdec' = decode(cenc)
    /\ UNCHANGED <<cs, cenc, craw, notCodec>>

\* string.rs decode applied to the string itself
decode_raw_call ==
    /\ op = "new"
    /\ op' = "decode_raw"
    /\ craw' = decode(cs)
    /\ UNCHANGED <<cs, cenc, cdec, notCodec>>

CodecNext == encode_call \/ decode_call \/ decode_raw_call

SpecCodec == CodecInit /\ [][CodecNext]_vars

\* C8: decoding the encoding of a string gives the string back.
C8_DecodeEncode == op = "decode" => cdec = cs

\* a string of two backslashes and the letter c, encoded and decoded
C8_Witness ==
    /\ op = "decode"
    /\ cs = <<BACKSLASH, BACKSLASH, "c">>
    /\ cenc = <<BACKSLASH, BACKSLASH, BACKSLASH, BACKSLASH, "c">>
    /\ cdec = cs

\* ------------------------------------------------------ header round trip

MaxValLen == 2

ValueAlphabet == {"v", SP, COLON, BACKSLASH, CARRIAGE_RETURN, NEWLINE, ","}
Values == SeqsUpTo(ValueAlphabet, MaxValLen)
SmallValues == SeqsUpTo(ValueAlphabet, 1)
ValueLists == { <<v>> : v \in Values } \cup
              { <<v, w>> : v \in SmallValues, w \in SmallValues }
Names == { <<"a">>, <<"A">>, <<"B", "c">>, <<SP, "a">>,
           <<CARRIAGE_RETURN, COLON>> }

HeaderTables ==
    { [n \in {k} |-> vs] : k \in Names, vs \in ValueLists }
    \cup
    { [n \in {k1, k2} |-> IF n = k1 THEN <<v1>> ELSE <<v2>>] :
        k1 \in Names, k2 \in Names, v1 \in SmallValues, v2 \in SmallValues }

\* the orders in which the names of a set can be added
Orders(S) ==
    { o \in [1..Cardinality(S) -> S] :
        \A i, j \in DOMAIN o : o[i] = o[j] => i = j }

\* Header::push of each value of a name, first to last
RECURSIVE PushValues(_, _, _)
PushValues(h, key, values) ==
    IF values = <<>> THEN h
    ELSE PushValues(Header_push(h, key, Head(values)), key, Tail(values))

\* the table built by adding the names of t in the order o
RECURSIVE PushAll(_, _, _)
PushAll(h, t, o) ==
    IF o = <<>> THEN h
    ELSE PushAll(PushValues(h, Head(o), t[Head(o)]), t, Tail(o))

\* Header::new, then the fields pushed in one of the orders
HeaderInit ==
    /\ \E t \in HeaderTables :
          /\ hOrder \in Orders(DOMAIN t)
          /\ hTable = PushAll(Header_new, t, hOrder)
    /\ hWire = <<>> /\ hParsed = NoHeader
    /\ src = <<>>
    /\ ReaderInit
    /\ WriterIdle /\ CodecIdle /\ LineIdle /\ CommandIdle /\ UnitIdle
    /\ GateIdle

notHeader == <<src, srcPos, pos, latch, frame, body, delivered, result,
               callPos, hdrStart, hdrRes, writerVars, codecVars, lineVars,
               commandVars, unitVars, gateVars>>

\* mod.rs Header::write_to into an empty Vec<u8>
header_write ==
    /\ op = "new"
    /\ op' = "write_to"
    /\ hWire' = Header_write_to(hTable)
    /\ UNCHANGED <<hTable, hParsed, hOrder, notHeader>>

\* mod.rs Header::read_from on a BufReader over the bytes written
header_read ==
    /\ op = "write_to"
    /\ op' = "read_from"
    /\ hParsed' = Header_read_from(hWire, 0)
    /\ UNCHANGED <<hTable, hWire, hOrder, notHeader>>

HeaderNext == header_write \/ header_read

SpecHeader == HeaderInit /\ [][HeaderNext]_vars

\* a header table with its names lower-cased, the value lists of the names
\* that fall together joined in the names' order
RECURSIVE ValuesOf(_, _, _)
ValuesOf(h, keys, k) ==
    IF keys = <<>> THEN <<>>
    ELSE (IF to_lowercase(Head(keys)) = k THEN h[Head(keys)] ELSE <<>>)
           \o ValuesOf(h, Tail(keys), k)

FoldedAll(h) ==
    [k \in { to_lowercase(n) : n \in DOMAIN h } |->
        ValuesOf(h, SortedKeys(DOMAIN h), k)]

Specials == {BACKSLASH, CARRIAGE_RETURN, NEWLINE, COLON}

\* C9 as stated: whatever value lists the table holds, parsing what write_to
\* wrote gives the table back, its names lower-cased.
C9_RoundTripAll ==
    op = "read_from" =>
        /\ hParsed.status = "Ok"
        /\ hParsed.header = FoldedAll(hTable)

\* the tables of the amended claim: names without surrounding whitespace and
\* distinct when lower-cased, one value per name, the value without leading
\* whitespace and not ending in CR or LF, the bytes within the header budget
Plain(h) ==
    /\ \A n \in DOMAIN h :
          /\ n # <<>> /\ trim(n) = n
          /\ \A i \in DOMAIN n : n[i] \notin Specials
          /\ \A m \in DOMAIN h : to_lowercase(m) = to_lowercase(n) => m = n
          /\ Len(h[n]) = 1
          /\ trim_start(h[n][1]) = h[n][1]
          /\ h[n][1] = <<>> \/
             h[n][1][Len(h[n][1])] \notin {CARRIAGE_RETURN, NEWLINE}
    /\ Len(Header_write_to(h)) <= MAX_HEADER_SIZE

\* C9, amended: for a table whose names have no surrounding whitespace and
\* stay distinct when lower-cased, that holds one value per name, the value
\* without leading whitespace and not ending in CR or LF, and whose bytes
\* fit the header budget, parsing what write_to wrote gives the table back,
\* its names lower-cased; colons, backslashes and inner CR or LF in the
\* value are kept.
C9_RoundTripPlain ==
    (op = "read_from" /\ Plain(hTable)) =>
        /\ hParsed.status = "Ok"
        /\ hParsed.pos = Len(hWire)
        /\ hParsed.header = Folded(hTable)

\* an upper-case name whose value is a colon and a backslash
C9_Witness ==
    /\ op = "read_from"
    /\ Plain(hTable)
    /\ DOMAIN hTable = {<<"B", "c">>}
    /\ hTable[<<"B", "c">>] = << <<COLON, BACKSLASH>> >>
    /\ hParsed.header = OneHeader(<<"b", "c">>, <<COLON, BACKSLASH>>)

\* ------------------------------------------------------ header serialization

\* the lines of written bytes, without the LF that ends each
WireLines(w) ==
    LET parts == Split(w, EOL) IN SubSeq(parts, 1, Len(parts) - 1)

\* the field names the lines of written bytes carry, first line to last
WireNames(w) ==
    [i \in DOMAIN WireLines(w) |-> decode(Split(WireLines(w)[i], COLON)[1])]

\* C11: whatever the order in which the fields were added, Header::write_to
\* emits one line per field name and the names of successive lines are in
\* strictly ascending order.
C11_AscendingOrder ==
    op \in {"write_to", "read_from"} =>
        LET names == WireNames(hWire)
        IN /\ Len(names) = Cardinality(DOMAIN hTable)
           /\ Range(names) = DOMAIN hTable
           /\ \A i, j \in DOMAIN names : i < j => StrLess(names[i], names[j])

\* the name a was added before the name Bc, and Bc's line is written first
C11_Witness ==
    /\ op = "write_to"
    /\ hOrder = << <<"a">>, <<"B", "c">> >>
    /\ hTable = [n \in {<<"a">>, <<"B", "c">>} |-> << <<"v">> >>]
    /\ hWire = <<"B", "c", COLON, SP, "v", EOL, "a", COLON, SP, "v", EOL>>

\* how many times the byte c occurs in w
Count(w, c) == Cardinality({ i \in DOMAIN w : w[i] = c })

\* C12: Header::write_to emits one line per field name, the encoded name,
\* a colon and a space, the encoded values joined by commas, and LF; the
\* bytes hold as many LF as there are names and no CR.
C12_OneLinePerField ==
    op \in {"write_to", "read_from"} =>
        LET lines == WireLines(hWire)
        IN /\ Count(hWire, EOL) = Cardinality(DOMAIN hTable)
           /\ Count(hWire, CARRIAGE_RETURN) = 0
           /\ hWire # <<>> => hWire[Len(hWire)] = EOL
           /\ Len(lines) = Cardinality(DOMAIN hTable)
           /\ \A k \in DOMAIN hTable : \E i \in DOMAIN lines :
                  lines[i] = encode(k) \o <<COLON, SP>> \o encode(Join(hTable[k]))

\* a name holding CR and a colon, with the two values LF and CR
C12_Witness ==
    /\ op = "write_to"
    /\ DOMAIN hTable = {<<CARRIAGE_RETURN, COLON>>}
    /\ hTable[<<CARRIAGE_RETURN, COLON>>] = << <<NEWLINE>>, <<CARRIAGE_RETURN>> >>
    /\ hWire = <<BACKSLASH, "r", BACKSLASH, "c", COLON, SP,
                 BACKSLASH, "n", ",", BACKSLASH, "r", EOL>>

\* ----------------------------------------------------------- command line

Spaces(n) == [i \in 1..n |-> SP]

\* the bytes a source holds when read_command is called: each command's
\* spelling ended by LF, by CR LF, by EOF, preceded by a space, lower-cased,
\* followed by a letter; blank lines; lines longer than the command budget
CommandInputs ==
    { <<>>, <<EOL>>, <<SP, EOL>>, <<CARRIAGE_RETURN, EOL>>, <<SP>> }
    \cup { CommandText[c] \o <<EOL>> : c \in Commands }
    \cup { CommandText[c] \o <<CARRIAGE_RETURN, EOL>> : c \in Commands }
    \cup { CommandText[c] : c \in Commands }
    \cup { <<SP>> \o CommandText[c] \o <<EOL>> : c \in Commands }
    \cup { to_lowercase(CommandText[c]) \o <<EOL>> : c \in Commands }
    \cup { CommandText[c] \o <<"X", EOL>> : c \in Commands }
    \cup { CommandText.Send \o <<EOL>> \o CommandText.Ack \o <<EOL>>,
           CommandText.Send \o Spaces(MAX_COMMAND_SIZE - 3) \o <<EOL>>,
           CommandText.Send \o Spaces(MAX_COMMAND_SIZE - 4) \o <<"x", EOL>>,
           Spaces(MAX_COMMAND_SIZE) \o CommandText.Send \o <<EOL>> }

\* a BufReader over a source holding one of the command inputs
CommandInit ==
    /\ cmdLine \in CommandInputs
    /\ cmdRes = NoCommand
    /\ src = <<>>
    /\ ReaderInit
    /\ WriterIdle /\ CodecIdle /\ HeaderIdle /\ LineIdle /\ UnitIdle
    /\ GateIdle

notCommand == <<src, srcPos, pos, latch, frame, body, delivered, result,
                callPos, hdrStart, hdrRes, writerVars, codecVars, headerVars,
                lineVars, unitVars, gateVars>>

\* mod.rs Frame::read_command on the BufReader
read_command_call ==
    /\ op = "new"
    /\ op' = "read_command"
    /\ cmdRes' = Frame_read_command(cmdLine, 0)
    /\ UNCHANGED <<cmdLine, notCommand>>

CommandNext == read_command_call

SpecCommand == CommandInit /\ [][CommandNext]_vars

\* the command line of a source: its bytes through the first LF, or all of
\* them when it holds no LF
CommandLineOf(stream) == SubSeq(stream, 1, ReadUntilLen(stream, 0, Len(stream)))

Spellings == { CommandText[c] : c \in Commands }

\* C13: read_command returns the command c exactly when the command line,
\* trimmed of surrounding whitespace, is c's canonical spelling; a source at
\* EOF or a whitespace-only line fails with "empty command", any other text
\* fails with "invalid command".
C13_ExactMatch ==
    op = "read_command" =>
        LET text == trim(CommandLineOf(cmdLine))
        IN /\ \A c \in Commands :
                 (cmdRes.ok /\ cmdRes.value = c) <=> text = CommandText[c]
           /\ text = <<>> => (~cmdRes.ok /\ cmdRes.value = "empty command")
           /\ (text # <<>> /\ text \notin Spellings) =>
                 (~cmdRes.ok /\ cmdRes.value = "invalid command")

\* the same for the command lines that fit the command budget
C13_WithinBudget ==
    (op = "read_command" /\ Len(CommandLineOf(cmdLine)) <= MAX_COMMAND_SIZE) =>
        LET text == trim(CommandLineOf(cmdLine))
        IN /\ \A c \in Commands :
                 (cmdRes.ok /\ cmdRes.value = c) <=> text = CommandText[c]
           /\ text = <<>> => (~cmdRes.ok /\ cmdRes.value = "empty command")
           /\ (text # <<>> /\ text \notin Spellings) =>
                 (~cmdRes.ok /\ cmdRes.value = "invalid command")

\* C15: when the source holds more bytes than the command budget and none of
\* the first MAX_COMMAND_SIZE is LF, read_command fails.
C15_OverlongRejected ==
    (/\ op = "read_command"
     /\ Len(cmdLine) > MAX_COMMAND_SIZE
     /\ \A i \in 1..MAX_COMMAND_SIZE : cmdLine[i] # EOL)
        => ~cmdRes.ok

\* ------------------------------------------------------------ header lines

\* what header lines hold between their line endings
LineContents ==
    { <<"a", COLON, "b">>,
      <<"A", COLON, SP, "b">>,
      <<SP, "a", SP, COLON, "b">>,
      <<"a", COLON, "b", COLON, "c">>,
      <<"a", COLON, "x", BACKSLASH, "n">>,
      <<"a", COLON, BACKSLASH, "c">>,
      <<"a", COLON, "b", BACKSLASH>>,
      <<"a", "b", COLON, "c">>,
      <<"x", COLON, "y", "z">>,
      <<COLON, "b">>,
      <<"a">>,
      <<>> }

\* header blocks of up to two lines, and two that exceed the header budget
LineBlocks ==
    SeqsUpTo(LineContents, 2)
    \cup { << <<"a", "b", COLON, "c">>, <<"a", "b", COLON, "c">>,
              <<"a", "b", COLON, "c">>, <<"x", COLON, "y", "z">> >>,
           << <<"a", COLON, "b">>, <<"a", COLON, "b">>, <<"a", COLON, "b">>,
              <<"a", COLON, "b">>, <<"x", COLON, "y", "z">> >> }

\* the bytes of a block whose lines all end in the ending
RECURSIVE BlockBytes(_, _)
BlockBytes(lines, ending) ==
    IF lines = <<>> THEN <<>>
    ELSE Head(lines) \o ending \o BlockBytes(Tail(lines), ending)

\* a BufReader over a source holding one of the header blocks
LineInit ==
    /\ lBlock \in LineBlocks
    /\ lLF = NoHeader /\ lCRLF = NoHeader
    /\ src = <<>>
    /\ ReaderInit
    /\ WriterIdle /\ CodecIdle /\ HeaderIdle /\ CommandIdle /\ UnitIdle
    /\ GateIdle

notLine == <<src, srcPos, pos, latch, frame, body, delivered, result,
             callPos, hdrStart, hdrRes, writerVars, codecVars, headerVars,
             commandVars, unitVars, gateVars>>

\* mod.rs Header::read_from on the block, its lines ended by LF
read_lf ==
    /\ op = "new"
    /\ op' = "read_lf"
    /\ lLF' = Header_read_from(BlockBytes(lBlock, <<EOL>>), 0)
    /\ UNCHANGED <<lBlock, lCRLF, notLine>>

\* mod.rs Header::read_from on the block, its lines ended by CR LF
read_crlf ==
    /\ op = "read_lf"
    /\ op' = "read_crlf"
    /\ lCRLF' = Header_read_from(BlockBytes(lBlock, <<CARRIAGE_RETURN, EOL>>), 0)
    /\ UNCHANGED <<lBlock, lLF, notLine>>

LineNext == read_lf \/ read_crlf

SpecLines == LineInit /\ [][LineNext]_vars

\* C14: a header block longer than the header budget makes Header::read_from
\* fail with a Format error.
C14_OverBudgetRejected ==
    (op = "read_lf" /\ Len(BlockBytes(lBlock, <<EOL>>)) > MAX_HEADER_SIZE)
        => lLF.status = "Format"

\* where the first colon of a line stands (0 when it has none)
FirstColon(line) ==
    IF \A i \in DOMAIN line : line[i] # COLON THEN 0
    ELSE CHOOSE i \in DOMAIN line :
             line[i] = COLON /\ \A j \in 1..(i - 1) : line[j] # COLON

\* C16: Header::read_from splits a line at its first colon only: the name is
\* the text before it, the value all the text after it, further colons
\* included; a line without a colon fails with a Format error.
C16_FirstColonSplit ==
    (op = "read_lf" /\ Len(lBlock) = 1) =>
        LET line == lBlock[1]
            c == FirstColon(line)
            name == to_lowercase(trim(decode(SubSeq(line, 1, c - 1))))
            value == trim_end_matches(trim_end_matches(
                         trim_start(decode(SubSeq(line, c + 1, Len(line)))),
                         NEWLINE), CARRIAGE_RETURN)
        IN IF c = 0 \/ name = <<>>
           THEN lLF.status = "Format"
           ELSE /\ lLF.status = "Ok"
                /\ lLF.header = OneHeader(name, value)

\* C17: Header::read_from returns the same table, or the same error, whether
\* the lines of the block end in CR LF or in LF.
C17_SameForCRLF ==
    op = "read_crlf" =>
        /\ lCRLF.status = lLF.status
        /\ lCRLF.status = "Ok" => lCRLF.header = lLF.header

\* the same for the blocks that fit the header budget with either ending
C17_WithinBudget ==
    (/\ op = "read_crlf"
     /\ Len(BlockBytes(lBlock, <<CARRIAGE_RETURN, EOL>>)) <= MAX_HEADER_SIZE)
        => /\ lCRLF.status = lLF.status
           /\ lCRLF.status = "Ok" => lCRLF.header = lLF.header

\* ----------------------------------------------------- content-length lookup

\* the header block the last read_frame parsed, and its lines
BlockRead == SubSeq(src, hdrStart + 1, hdrRes.pos)
BlockReadLines == Split(BlockRead, EOL)

\* the spellings of the content-length field name on the wire
ContentLengthSpellings == {CONTENT_LENGTH, ContentLengthMixed, ContentLengthUpper}

\* C18: when read_frame returns a frame whose header block has a line named
\* content-length in any capitalization, the frame's body is the
\* length-bounded one, its length the value of the first such line.
C18_AnyCapitalization ==
    (op = "read_frame" /\ result = "Ok") =>
        \A i \in DOMAIN BlockReadLines :
            LET line == BlockReadLines[i]
                c == FirstColon(line)
            IN (/\ c > 0
                /\ SubSeq(line, 1, c - 1) \in ContentLengthSpellings
                /\ \A j \in 1..(i - 1) :
                      FirstColon(BlockReadLines[j]) = 0 \/
                      SubSeq(BlockReadLines[j], 1, FirstColon(BlockReadLines[j]) - 1)
                          \notin ContentLengthSpellings)
               => /\ CONTENT_LENGTH \in DOMAIN frame.header
                  /\ frame.content_length =
                         ParseU64(trim_start(SubSeq(line, c + 1, Len(line))))
                  /\ frame.content_length >= 0
                  /\ body.kind = "bi"
                  /\ body.limit = frame.content_length

\* a frame whose header line reads Content-Length:1, returned with a body
\* bounded to one byte
C18_Witness ==
    /\ op = "read_frame" /\ result = "Ok"
    /\ BlockRead = LineNamed(ContentLengthMixed, "1")
    /\ frame.alive
    /\ frame.content_length = 1
    /\ body.kind = "bi" /\ body.limit = 1

\* a frame whose header line reads CONTENT-LENGTH:2, its two body bytes read
C18_WitnessUpper ==
    /\ op = "read"
    /\ BlockRead = LineNamed(ContentLengthUpper, "2")
    /\ frame.content_length = 2
    /\ Len(delivered) = 2

\* -------------------------------------------- encode over concatenation

\* C20: for every way of cutting a string into a and b, the encoding of the
\* string is the encoding of a followed by the encoding of b.
C20_EncodeConcat ==
    op = "encode" =>
        \A k \in 0..Len(cs) :
            cenc = encode(SubSeq(cs, 1, k)) \o encode(SubSeq(cs, k + 1, Len(cs)))

\* a backslash followed by the letter n, which side by side read as an
\* escape: the encoding is the escaped backslash and the letter
C20_Witness ==
    /\ op = "encode"
    /\ cs = <<BACKSLASH, "n">>
    /\ cenc = <<BACKSLASH, BACKSLASH, "n">>
    /\ cenc = encode(<<BACKSLASH>>) \o encode(<<"n">>)

\* -------------------------------------------- header table (frame.rs)

MaxValues == 2

\* frame.rs Header::add
Header_add(h, key, value) ==
    IF key \in DOMAIN h
    THEN [h EXCEPT ![key] = Append(@, value)]
    ELSE [k \in DOMAIN h \cup {key} |-> IF k = key THEN <<value>> ELSE h[k]]

\* frame.rs Header::set
Header_set(h, key, values) ==
    [k \in DOMAIN h \cup {key} |-> IF k = key THEN values ELSE h[k]]

\* frame.rs Header::remove
Header_remove(h, key) == [k \in DOMAIN h \ {key} |-> h[k]]

TableKeys == { <<"a">>, <<"b">>, <<"c">> }
TableValues == { <<"v">>, <<"w">> }

\* frame.rs Header::new
TableInit ==
    /\ src = <<>>
    /\ ReaderInit
    /\ WriterIdle /\ CodecIdle /\ HeaderIdle /\ LineIdle /\ CommandIdle /\ UnitIdle
    /\ GateIdle

notTable == <<src, srcPos, pos, latch, frame, body, delivered, result,
              callPos, hdrStart, hdrRes, writerVars, codecVars, lineVars,
              commandVars, unitVars, gateVars, hWire, hParsed, hOrder>>

\* a call of Header::add
header_add ==
    \E key \in TableKeys, value \in TableValues :
        /\ key \in DOMAIN hTable => Len(hTable[key]) < MaxValues
        /\ hTable' = Header_add(hTable, key, value)
        /\ op' = "add"
        /\ UNCHANGED notTable

\* a call of Header::set
header_set ==
    \E key \in TableKeys, values \in SeqsUpTo(TableValues, MaxValues) :
        /\ hTable' = Header_set(hTable, key, values)
        /\ op' = "set"
        /\ UNCHANGED notTable

\* a call of Header::remove
header_remove ==
    \E key \in TableKeys :
        /\ hTable' = Header_remove(hTable, key)
        /\ op' = "remove"
        /\ UNCHANGED notTable

TableNext == header_add \/ header_set \/ header_remove

SpecTable == TableInit /\ [][TableNext]_vars

\* C19: after any sequence of add, set and remove from Header::new, every
\* name in the table has a non-empty list of values.
C19_NonEmptyLists == \A k \in DOMAIN hTable : hTable[k] # <<>>

\* add and remove keep the lists non-empty: only a step of set leaves a name
\* with an empty list
C19_AddRemoveKeepNonEmpty ==
    [][(C19_NonEmptyLists /\ op' # "set") => C19_NonEmptyLists']_vars

\* ----------------------------------------------- the adapters of frame/io.rs

\* An upstream reader is given by what its reads yield, first to last: a byte,
\* or ZERO for a read that returns 0 although more bytes follow.  Past the
\* last item every read returns 0.  A read returns at most chunk bytes.
ZERO == "ZERO"

\* how many bytes stand at position p before the next ZERO or the end
RECURSIVE RunLen(_, _)
RunLen(up, p) ==
    IF p >= Len(up) \/ up[p + 1] = ZERO THEN 0 ELSE 1 + RunLen(up, p + 1)

\* Read::read(buf[..max]) of the upstream at position p: [n, pos]
Reader_read(up, p, chunk, max) ==
    IF p >= Len(up) THEN [n |-> 0, pos |-> p]
    ELSE IF up[p + 1] = ZERO THEN [n |-> 0, pos |-> p + 1]
    ELSE LET n == Min(Min(max, chunk), RunLen(up, p))
         IN [n |-> n, pos |-> p + n]

\* io.rs DelimitedReadFrom::read_from: the while loop, from counter ctr
RECURSIVE DelimitedReadFrom_loop(_, _, _, _, _)
DelimitedReadFrom_loop(up, st, buffer, ctr, total_read) ==
    IF ctr >= Len(buffer) THEN [n |-> total_read, buf |-> buffer, st |-> st]
    ELSE LET r == Reader_read(up, st.pos, st.chunk, 1)
             st1 == [st EXCEPT !.pos = r.pos]
         IN IF r.n > 0
            THEN IF up[st.pos + 1] = NULL
                 THEN [n |-> total_read, buf |-> buffer,
                       st |-> [st1 EXCEPT !.done = TRUE]]
                 ELSE DelimitedReadFrom_loop(up, st1,
                          [buffer EXCEPT ![ctr + 1] = up[st.pos + 1]],
                          ctr + 1, total_read + r.n)
            ELSE DelimitedReadFrom_loop(up, st1, buffer, ctr + 1, total_read)

\* a reader that hands on what the upstream returns, delimiters included
DelimitedReadFrom_through(up, st, buffer) ==
    LET r == Reader_read(up, st.pos, st.chunk, Len(buffer))
    IN [n |-> r.n,
        buf |-> [i \in 1..Len(buffer) |->
                    IF i <= r.n THEN up[st.pos + i] ELSE buffer[i]],
        st |-> [st EXCEPT !.pos = r.pos]]

\* a delimited reader that goes on reading after the delimiter
DelimitedReadFrom_resume(up, st, buffer) ==
    DelimitedReadFrom_loop(up, st, buffer, 0, 0)

\* io.rs DelimitedReadFrom::read_from
DelimitedReadFrom_read_from(up, st, buffer) ==
    IF st.done THEN [n |-> 0, buf |-> buffer, st |-> st]
    ELSE DelimitedReadFrom_loop(up, st, buffer, 0, 0)

\* a take reader that leaves its limit as it was
TakeReadFrom_keep_limit(up, st, buffer) ==
    LET max == Min(Len(buffer), st.limit)
        r == Reader_read(up, st.pos, st.chunk, max)
    IN [n |-> r.n,
        buf |-> [i \in 1..Len(buffer) |->
                    IF i <= r.n THEN up[st.pos + i] ELSE buffer[i]],
        st |-> [st EXCEPT !.pos = r.pos]]

\* io.rs TakeReadFrom::read_from
TakeReadFrom_read_from(up, st, buffer) ==
    IF st.limit = 0 THEN [n |-> 0, buf |-> buffer, st |-> st]
    ELSE LET max == Min(Len(buffer), st.limit)
             r == Reader_read(up, st.pos, st.chunk, max)
         IN [n |-> r.n,
             buf |-> [i \in 1..Len(buffer) |->
                         IF i <= r.n THEN up[st.pos + i] ELSE buffer[i]],
             st |-> [st EXCEPT !.pos = r.pos, !.limit = st.limit - r.n]]

MaxUp == 4
MaxBuf == 3
MaxChunk == 2
MaxLimit == 3

\* io.rs DelimitedReadFrom::new / TakeReadFrom::new over an upstream
UnitInitOver(contents) ==
    /\ uUp \in contents
    /\ \E chunk \in 1..MaxChunk :
          \/ /\ uKind = "delimited" /\ uN = 0
             /\ uSt = [pos |-> 0, chunk |-> chunk, limit |-> 0, done |-> FALSE]
          \/ /\ uKind = "take" /\ uN \in 0..MaxLimit
             /\ uSt = [pos |-> 0, chunk |-> chunk, limit |-> uN, done |-> FALSE]
    /\ uOut = <<>> /\ uLast = NoRead
    /\ src = <<>>
    /\ ReaderInit
    /\ WriterIdle /\ CodecIdle /\ HeaderIdle /\ LineIdle /\ CommandIdle
    /\ GateIdle

notUnit == <<src, srcPos, pos, latch, frame, body, delivered, result,
             callPos, hdrStart, hdrRes, writerVars, codecVars, headerVars,
             lineVars, commandVars, gateVars>>

\* the caller's read through the adapter into a buffer of len bytes
UnitRead(r) ==
    /\ op' = "read_from"
    /\ uSt' = r.st
    /\ uOut' = uOut \o SubSeq(r.buf, 1, r.n)
    /\ uLast' = [n |-> r.n, buf |-> r.buf, from |-> uSt.pos, before |-> uSt]
    /\ UNCHANGED <<uUp, uKind, uN, notUnit>>

delimited_read_from(len) ==
    /\ uKind = "delimited"
    /\ UnitRead(DelimitedReadFrom_read_from(uUp, uSt, FreshBuf(len)))

take_read_from(len) ==
    /\ uKind = "take"
    /\ UnitRead(TakeReadFrom_read_from(uUp, uSt, FreshBuf(len)))

UnitNext ==
    \/ \E len \in 1..MaxBuf : delimited_read_from(len)
    \/ \E len \in 1..MaxBuf : take_read_from(len)

\* upstreams whose reads return 0 only at the end
UnitInit == UnitInitOver(SeqsUpTo({"x", "y", NULL}, MaxUp))

SpecUnit == UnitInit /\ [][UnitNext]_vars

\* upstreams of which a read may return 0 before the end
UnitGapsInit == UnitInitOver(SeqsUpTo({"x", "y", NULL, ZERO}, MaxUp))

SpecUnitGaps == UnitGapsInit /\ [][UnitNext]_vars

\* where the first delimiter of the upstream stands (0 when it has none)
FirstDelimiter ==
    IF \A i \in DOMAIN uUp : uUp[i] # NULL THEN 0
    ELSE CHOOSE i \in DOMAIN uUp : uUp[i] = NULL /\ \A j \in 1..(i - 1) : uUp[j] # NULL

\* the upstream bytes before the first delimiter, or all of them
BeforeDelimiter ==
    IF FirstDelimiter = 0 THEN uUp ELSE SubSeq(uUp, 1, FirstDelimiter - 1)

\* C21: whatever the sizes of the buffers read into, the delimited reader
\* delivers the upstream bytes before the first delimiter, in order and
\* without the delimiter; until it stops it has consumed what it delivered,
\* and once it stops at the delimiter it has consumed those bytes and the
\* delimiter, nothing after it; a read that returns 0 comes only when all
\* of them are delivered.
C21_DeliversUpToDelimiter ==
    uKind = "delimited" =>
        /\ Len(uOut) <= Len(BeforeDelimiter)
        /\ uOut = SubSeq(BeforeDelimiter, 1, Len(uOut))
        /\ ~uSt.done => uSt.pos = Len(uOut)
        /\ uSt.done => (uOut = BeforeDelimiter /\ uSt.pos = FirstDelimiter)
        /\ (op = "read_from" /\ uLast.n = 0) => uOut = BeforeDelimiter

\* the bytes x, y before the delimiter delivered over two reads, the byte
\* after the delimiter left in the upstream
C21_Witness ==
    /\ uKind = "delimited"
    /\ uUp = <<"x", "y", NULL, "x">>
    /\ uLast.from = 1 /\ uLast.n = 1
    /\ uSt.done /\ uSt.pos = 3
    /\ uOut = <<"x", "y">>

\* C22: a read of the delimited reader made after it has seen the delimiter
\* returns 0, writes nothing to the buffer and consumes nothing from upstream.
C22_DoneIsTerminal ==
    (op = "read_from" /\ uKind = "delimited" /\ uLast.before.done) =>
        /\ uLast.n = 0
        /\ uSt.pos = uLast.from
        /\ uSt.done
        /\ \A i \in DOMAIN uLast.buf : uLast.buf[i] = Stale

\* a read after the delimiter, the upstream still holding a byte and another
\* delimiter
C22_Witness ==
    /\ op = "read_from" /\ uKind = "delimited"
    /\ uLast.before.done
    /\ uUp = <<"x", NULL, "y", NULL>>
    /\ uSt.pos = 2
    /\ uLast.n = 0

\* C23: the take reader's remaining count is its limit less the bytes
\* returned and never negative; a read returns at most the smaller of the
\* remaining count and the buffer's length, and 0 once nothing remains; the
\* bytes consumed from upstream are the bytes returned.
C23_TakeCounts ==
    uKind = "take" =>
        /\ uSt.limit = uN - Len(uOut)
        /\ uSt.limit >= 0
        /\ uSt.pos = Len(uOut)
        /\ uOut = SubSeq(uUp, 1, Len(uOut))
        /\ op = "read_from" =>
              /\ uLast.n <= Min(uLast.before.limit, Len(uLast.buf))
              /\ uLast.before.limit = 0 => uLast.n = 0

\* a take reader of limit 2 exhausted over two reads, the delimiter that
\* follows its bytes left in the upstream, and a third read returning 0
C23_Witness ==
    /\ op = "read_from" /\ uKind = "take" /\ uN = 2
    /\ uUp = <<"x", "y", NULL, "x">>
    /\ uLast.before.limit = 0 /\ uLast.n = 0
    /\ uSt.pos = 2
    /\ uOut = <<"x", "y">>

\* the bytes among the items of the upstream from position a + 1 to b
RECURSIVE BytesBetween(_, _)
BytesBetween(a, b) ==
    IF a >= b THEN <<>>
    ELSE (IF uUp[a + 1] \in {ZERO, NULL} THEN <<>> ELSE <<uUp[a + 1]>>)
           \o BytesBetween(a + 1, b)

\* C29: a read of the delimited reader that reports n bytes has put the n
\* bytes it took from upstream, in order, at the first n places of the buffer.
C29_ReportedBytesInPlace ==
    (op = "read_from" /\ uKind = "delimited") =>
        SubSeq(uLast.buf, 1, uLast.n) = BytesBetween(uLast.from, uSt.pos)

\* ------------------------------------------------- values under one name

\* the lines Header::read_from took from the block, the last one possibly
\* cut by the header budget
LinesRead ==
    LET parts == Split(SubSeq(BlockBytes(lBlock, <<EOL>>), 1, lLF.pos), EOL)
    IN IF parts[Len(parts)] = <<>> THEN SubSeq(parts, 1, Len(parts) - 1) ELSE parts

\* the one-field table a line gives when it is read alone
FieldOf(line) == Header_read_from(line \o <<EOL>>, 0).header

\* the values the lines give under the name k, in the order of the lines
RECURSIVE ValuesUnder(_, _)
ValuesUnder(k, lines) ==
    IF lines = <<>> THEN <<>>
    ELSE (IF k \in DOMAIN FieldOf(Head(lines)) THEN FieldOf(Head(lines))[k] ELSE <<>>)
           \o ValuesUnder(k, Tail(lines))

C24_AddAppends ==
    [][op' = "add" =>
          \E key \in TableKeys, value \in TableValues :
              /\ DOMAIN hTable' = DOMAIN hTable \cup {key}
              /\ hTable'[key] =
                     (IF key \in DOMAIN hTable THEN hTable[key] ELSE <<>>) \o <<value>>
              /\ \A k \in DOMAIN hTable \ {key} : hTable'[k] = hTable[k]]_vars

\* ------------------------------------------------------ decode, step by step

\* the string with its escapes resolved two characters at a time: a backslash
\* and c, n, r or backslash give colon, LF, CR or backslash; a backslash and
\* any other character give that character; a last backslash gives nothing
RECURSIVE Unescaped(_)
Unescaped(s) ==
    IF s = <<>> THEN <<>>
    ELSE IF Head(s) # BACKSLASH THEN <<Head(s)>> \o Unescaped(Tail(s))
    ELSE IF Len(s) = 1 THEN <<>>
    ELSE (CASE s[2] = "c" -> <<COLON>>
            [] s[2] = "n" -> <<NEWLINE>>
            [] s[2] = "r" -> <<CARRIAGE_RETURN>>
            [] OTHER -> <<s[2]>>)
           \o Unescaped(SubSeq(s, 3, Len(s)))

\* C25: decode resolves the escapes from left to right: a backslash pair
\* gives one backslash and the character after the pair is taken plainly, a
\* backslash before a character other than c, n, r and backslash is dropped
\* and the character kept, and a string without a backslash decodes to
\* itself; three backslashes and n decode to a backslash and LF.
C25_DecodeSteps ==
    op = "decode_raw" =>
        /\ craw = Unescaped(cs)
        /\ (\A i \in DOMAIN cs : cs[i] # BACKSLASH) => craw = cs
        /\ cs = <<BACKSLASH, BACKSLASH, BACKSLASH, "n">> => craw = <<BACKSLASH, NEWLINE>>
        /\ cs = <<BACKSLASH, BACKSLASH, "n">> => craw = <<BACKSLASH, "n">>
        /\ cs = <<BACKSLASH, "a", "c">> => craw = <<"a", "c">>

\* three backslashes and n, decoded to a backslash and LF
C25_Witness ==
    /\ op = "decode_raw"
    /\ cs = <<BACKSLASH, BACKSLASH, BACKSLASH, "n">>
    /\ craw = <<BACKSLASH, NEWLINE>>

\* -------------------------------------------------------------------- Gate

MaxOps == 6

\* mod.rs Gate::new
GateInit ==
    /\ gGuards = 0 /\ gLog = <<>>
    /\ src = <<>>
    /\ ReaderInit
    /\ WriterIdle /\ CodecIdle /\ HeaderIdle /\ LineIdle /\ CommandIdle
    /\ UnitIdle

notGate == <<src, srcPos, pos, frame, body, delivered, result,
             callPos, hdrStart, hdrRes, writerVars, codecVars, headerVars,
             lineVars, commandVars, unitVars>>

\* an operation is made on the gate while the program runs: not after the
\* panic of a failed latch
GateRuns ==
    /\ Len(gLog) < MaxOps
    /\ \A i \in DOMAIN gLog : gLog[i].outcome # "panic"

\* mod.rs Gate::latch: Guard::new(..).expect("gate is latched")
gate_latch ==
    LET g == Guard_new(latch)
    IN /\ GateRuns
       /\ op' = "latch"
       /\ latch' = g.value
       /\ gGuards' = IF g.some THEN gGuards + 1 ELSE gGuards
       /\ gLog' = Append(gLog, [call |-> "latch", before |-> latch, after |-> g.value,
                                outcome |-> IF g.some THEN "guard" ELSE "panic"])
       /\ UNCHANGED notGate

\* mod.rs Gate::try_latch
gate_try_latch ==
    LET g == Guard_new(latch)
    IN /\ GateRuns
       /\ op' = "try_latch"
       /\ latch' = g.value
       /\ gGuards' = IF g.some THEN gGuards + 1 ELSE gGuards
       /\ gLog' = Append(gLog, [call |-> "try_latch", before |-> latch, after |-> g.value,
                                outcome |-> IF g.some THEN "guard" ELSE "LatchError"])
       /\ UNCHANGED notGate

\* mod.rs Drop for Guard, of a live guard
guard_drop ==
    /\ GateRuns
    /\ gGuards > 0
    /\ op' = "guard_drop"
    /\ latch' = Guard_drop(latch)
    /\ gGuards' = gGuards - 1
    /\ gLog' = Append(gLog, [call |-> "drop", before |-> latch,
                             after |-> Guard_drop(latch), outcome |-> "dropped"])
    /\ UNCHANGED notGate

GateNext == gate_latch \/ gate_try_latch \/ guard_drop

SpecGate == GateInit /\ [][GateNext]_vars

\* C26: the latch is 0 or 1 and is the number of live guards; latch and
\* try_latch hand out a guard exactly when the latch was 0, a failed attempt
\* leaves the latch as it was, and the attempt that follows the drop of a
\* guard succeeds.
C26_GateCounts ==
    /\ latch \in {0, 1}
    /\ latch = gGuards
    /\ \A i \in DOMAIN gLog :
          /\ gLog[i].call \in {"latch", "try_latch"} =>
                /\ (gLog[i].outcome = "guard") <=> (gLog[i].before = 0)
                /\ gLog[i].outcome # "guard" => gLog[i].after = gLog[i].before
          /\ (i > 1 /\ gLog[i - 1].call = "drop" /\ gLog[i].call \in {"latch", "try_latch"})
                => gLog[i].outcome = "guard"

\* a guard taken, a try_latch refused, the guard dropped, and a latch that
\* succeeds
C26_Witness ==
    /\ Len(gLog) = 4
    /\ gLog[1].call = "latch" /\ gLog[1].outcome = "guard"
    /\ gLog[2].call = "try_latch" /\ gLog[2].outcome = "LatchError"
    /\ gLog[3].call = "drop"
    /\ gLog[4].call = "latch" /\ gLog[4].outcome = "guard"
    /\ latch = 1 /\ gGuards = 1

\* ------------------------------------------------ the latch after a failure

Failures ==
    {"empty command", "invalid command", "Format", "ParseInt", "IO", "Encoding"}

\* C27: a read_frame that fails after taking the latch leaves the latch
\* free, and the read_frame made next is not refused as busy.
C27_FailureReleases ==
    [][/\ (op' = "read_frame" /\ result' \in Failures) => latch' = UNUSED
       /\ (op = "read_frame" /\ result \in Failures /\ op' = "read_frame")
             => result' # "Busy"]_vars

\* a read_frame that failed on a content-length that is no number, the
\* header block consumed and the latch free
C27_Witness ==
    /\ op = "read_frame" /\ result = "ParseInt"
    /\ pos > callPos
    /\ ~frame.alive
    /\ latch = UNUSED

\* --------------------------------------------------- drain before release

====
